---- MODULE Spec2Model ----
(***************************************************************************)
(* Audit generation, scoring and quota gate of the AuditorIA external API  *)
(* service (app/services/audit_service.py, quota_check_service.py).        *)
(*                                                                         *)
(* The specifications of the module:                                       *)
(*   SpecScore  the Scorer (_calculate_score) applied to bounded inputs    *)
(*   SpecQuota  the Quota Gate (check_quota) over policies and usage       *)
(*   Spec       the Audit Orchestrator with concurrent requests            *)
(*   SpecDrift  the drift flag of compute_and_update_audit                 *)
(*   SpecClassify  the error classes of _generate_audit_with_ai            *)
(*   SpecTasks  get_task and delete_task of app/routers/tasks.py           *)
(*   SpecGate   one generation under every quota policy and usage          *)
(* Scores, target scores, limits and usage are integers: the code compares *)
(* and subtracts them, which integers do exactly.                          *)
(***************************************************************************)
EXTENDS Integers, Sequences, FiniteSets, TLC

VARIABLES
    scoreCall,    \* last call of _calculate_score: its arguments and result
    limitRow,     \* the campaign's row of campaign_billing_limits, or NoRow
    ledger,       \* Usage Ledger: month -> usage of the campaign in that month
    now,          \* the current calendar month
    quotaCall,    \* last call of check_quota: what it saw and what it returned
    driftCall,    \* last computation of criteria_changed: what it read, its result
    classifyCall, \* last failed call of the reasoning service and its outcome
    tasks,        \* tasks table: uuid -> the row of that uuid
    taskReqs,     \* worker of the tasks router -> the request it is serving
    interaction,  \* the call or chat under audit, its campaign and rubric
    audits,       \* rows of the audits table (audits_chats for a chat)
    pkSeq,        \* next value of the table's id sequence
    status,       \* status column of the interaction's task / chat
    reqs,         \* worker -> the request it is serving
    started,      \* number of requests received
    lastGen       \* history: response of the last finished generation

\* Python None where a dict (a row, a result) is expected
None == [none |-> TRUE]

(***************************************************************************)
(* Python helpers                                                          *)
(***************************************************************************)
Max(a, b) == IF a >= b THEN a ELSE b

\* FirstMatch that falls back on the first element when no question matches
FirstMatch_OrFirst(seq, q) ==
    IF \E i \in DOMAIN seq : seq[i].question = q
    THEN seq[CHOOSE i \in DOMAIN seq :
                 /\ seq[i].question = q
                 /\ \A j \in DOMAIN seq : seq[j].question = q => i <= j]
    ELSE IF seq # <<>> THEN seq[1] ELSE None

\* next((x for x in seq if x['question'] == q), None)
FirstMatch(seq, q) ==
    IF \E i \in DOMAIN seq : seq[i].question = q
    THEN seq[CHOOSE i \in DOMAIN seq :
                 /\ seq[i].question = q
                 /\ \A j \in DOMAIN seq : seq[j].question = q => i <= j]
    ELSE None

(***************************************************************************)
(* Scorer: OperatorQualityService._calculate_score                         *)
(***************************************************************************)
\* first loop: a critical criterion whose first matching verdict does not comply
CriticalFailure(audit_results, criteria) ==
    \E i \in DOMAIN criteria :
        /\ criteria[i].is_critical
        /\ LET matching_result == FirstMatch(audit_results, criteria[i].question)
           IN  /\ matching_result # None
               /\ ~matching_result.complies

\* Deduction with the compliance test inverted
Deduction_WhenComplies(result, criteria) ==
    LET matching_criterion == FirstMatch(criteria, result.question)
    IN  IF matching_criterion # None /\ result.complies
        THEN matching_criterion.target_score
        ELSE 0

\* second loop: what one verdict subtracts from the score
Deduction(result, criteria) ==
    LET matching_criterion == FirstMatch(criteria, result.question)
    IN  IF matching_criterion # None /\ ~result.complies
        THEN matching_criterion.target_score
        ELSE 0

RECURSIVE SumDeductions(_, _, _)
SumDeductions(audit_results, criteria, n) ==
    IF n = 0 THEN 0
    ELSE SumDeductions(audit_results, criteria, n - 1)
         + Deduction(audit_results[n], criteria)

StartScore == 100

\* ClampScore without the floor
ClampScore_NoFloor(score) == score

ClampScore(score) == Max(0, score)

FailureFlag(score, approval_score) == IF score < approval_score THEN 1 ELSE 0

_calculate_score(audit_results, criteria, approval_score) ==
    IF CriticalFailure(audit_results, criteria)
    THEN [score |-> 0, is_audit_failure |-> 1]
    ELSE LET score == StartScore
                      - SumDeductions(audit_results, criteria, Len(audit_results))
         IN  [score            |-> ClampScore(score),
              is_audit_failure |-> FailureFlag(score, approval_score)]

(***************************************************************************)
(* Inputs of the Scorer                                                    *)
(***************************************************************************)
MaxVerdicts == 3

QuestionSet == {"q1", "q2", "q3"}

\* question texts of a rubric by criteria_order; the table does not keep
\* them distinct
QuestionOrders == {<<"q1", "q2", "q3">>, <<"q1", "q1", "q2">>, <<"q2", "q1", "q2">>}

\* target scores of a rubric by criteria_order (non-negative)
TargetProfiles == {<<10, 20, 5>>, <<90, 10, 5>>, <<20, 90, 10>>, <<0, 100, 50>>}

ApprovalScores == {0, 80, 100}

Rubrics ==
    UNION {
        { [i \in 1..n |-> [question     |-> qs[i],
                           target_score |-> prof[i],
                           is_critical  |-> crit[i]]]
          : qs \in QuestionOrders, prof \in TargetProfiles,
            crit \in [1..n -> BOOLEAN] }
        : n \in 0..3 }

Verdict == [question : QuestionSet, complies : BOOLEAN]

VerdictLists == UNION {[1..n -> Verdict] : n \in 0..MaxVerdicts}

(***************************************************************************)
(* Quota Gate: QuotaCheckService                                           *)
(***************************************************************************)
\* a nullable column: <<>> is NULL, <<v>> holds v
Null == <<>>

NoRow == [none |-> TRUE]

NoReason == [none |-> TRUE]

Months == {1, 2}

\* get_campaign_usage_current_month: two aggregate queries over the current
\* month; a failed query leaves its totals at 0
get_campaign_usage_current_month(led, month, audioFails, tokenFails) ==
    [audio_minutes |-> IF audioFails THEN 0 ELSE led[month].audio_minutes,
     tokens        |-> IF tokenFails THEN 0 ELSE led[month].tokens,
     usd           |-> IF tokenFails THEN 0 ELSE led[month].usd]

\* Exceeded with a strict comparison
Exceeded_Strict(limit, used) == limit # Null /\ used > limit[1]

Exceeded(limit, used) == limit # Null /\ used >= limit[1]

\* IsHard that enforces whatever the mode
IsHard_AnyMode(enforcement_mode) == enforcement_mode \in {"soft", "hard"}

IsHard(enforcement_mode) == enforcement_mode = "hard"

Allowed(queries) == [allowed |-> TRUE, reason |-> NoReason, queries |-> queries]

Denied(dimension, used, limit, queries) ==
    [allowed |-> FALSE,
     reason  |-> [dimension |-> dimension, used |-> used, limit |-> limit[1]],
     queries |-> queries]

PolicyQuery == <<"campaign_billing_limits">>

UsageQueries == <<"audits", "ai_usage_events">>

\* a NULL limit read as the limit 0
OrZero(limit) == IF limit = Null THEN <<0>> ELSE limit

\* Decide without the tests "is not None": a NULL limit is the limit 0
Decide_NullIsZero(limit_row, usage, q) ==
    IF Exceeded(OrZero(limit_row.monthly_audio_minutes_limit), usage.audio_minutes)
    THEN Denied("audio", usage.audio_minutes,
                OrZero(limit_row.monthly_audio_minutes_limit), q)
    ELSE IF Exceeded(OrZero(limit_row.monthly_token_limit), usage.tokens)
    THEN Denied("tokens", usage.tokens, OrZero(limit_row.monthly_token_limit), q)
    ELSE IF Exceeded(OrZero(limit_row.monthly_usd_limit), usage.usd)
    THEN Denied("usd", usage.usd, OrZero(limit_row.monthly_usd_limit), q)
    ELSE Allowed(q)

\* the decision of check_quota for a row and a usage snapshot
Decide(limit_row, usage, q) ==
    IF Exceeded(limit_row.monthly_audio_minutes_limit, usage.audio_minutes)
    THEN Denied("audio", usage.audio_minutes,
                limit_row.monthly_audio_minutes_limit, q)
    ELSE IF Exceeded(limit_row.monthly_token_limit, usage.tokens)
    THEN Denied("tokens", usage.tokens, limit_row.monthly_token_limit, q)
    ELSE IF Exceeded(limit_row.monthly_usd_limit, usage.usd)
    THEN Denied("usd", usage.usd, limit_row.monthly_usd_limit, q)
    ELSE Allowed(q)

\* check_quota that computes the usage snapshot before it looks at the row
check_quota_EagerUsage(limit_row, led, month, policyFails, audioFails, tokenFails) ==
    LET usage == get_campaign_usage_current_month(led, month, audioFails, tokenFails)
        q     == PolicyQuery \o UsageQueries
    IN  IF policyFails THEN Allowed(q)
        ELSE IF limit_row = NoRow THEN Allowed(q)
        ELSE IF ~IsHard(limit_row.enforcement_mode) THEN Allowed(q)
        ELSE Decide(limit_row, usage, q)

\* check_quota; queries lists the tables it read
check_quota(limit_row, led, month, policyFails, audioFails, tokenFails) ==
    IF policyFails THEN Allowed(PolicyQuery)
    ELSE IF limit_row = NoRow THEN Allowed(PolicyQuery)
    ELSE IF ~IsHard(limit_row.enforcement_mode) THEN Allowed(PolicyQuery)
    ELSE Decide(limit_row,
                get_campaign_usage_current_month(led, month, audioFails, tokenFails),
                PolicyQuery \o UsageQueries)

\* inputs of the Quota Gate
Limits == {Null, <<0>>, <<100>>}

UsageLevels == <<0, 99, 100, 500>>

UsageLevelSet == {UsageLevels[i] : i \in DOMAIN UsageLevels}

Usages == [audio_minutes : UsageLevelSet, tokens : UsageLevelSet, usd : UsageLevelSet]

LimitRows ==
    {NoRow} \cup [monthly_audio_minutes_limit : Limits,
                  monthly_token_limit         : Limits,
                  monthly_usd_limit           : Limits,
                  enforcement_mode            : {"soft", "hard"}]

NoUsage == [audio_minutes |-> 0, tokens |-> 0, usd |-> 0]

HeavyUsage == [audio_minutes |-> 500, tokens |-> 500, usd |-> 500]

(***************************************************************************)
(* Audit Repository: the audits / audits_chats table of the interaction's  *)
(* kind, its id sequence and the status column of tasks / chats            *)
(***************************************************************************)
\* json.dumps and json.loads of a verdict list
JsonDumps(v) == [json |-> v]

JsonLoads(s) == s.json

\* bool(is_audit_failure); Python's True and False are the integers 1 and 0
PyBool(x) == IF x # 0 THEN 1 ELSE 0

\* the interaction the requests are about, and one audited out of band
Uuid == "uuid-1"

OtherUuid == "uuid-0"

RowsOf(rows, uuid) == {r \in rows : r.task_uuid = uuid}

\* SELECT ... WHERE task_uuid = :task_uuid LIMIT 1
SelectOne(rows, uuid) == CHOOSE r \in RowsOf(rows, uuid) : TRUE

_get_existing_audit(rows, task_uuid) ==
    IF RowsOf(rows, task_uuid) = {} THEN None
    ELSE LET result == SelectOne(rows, task_uuid)
         IN  [task_uuid         |-> result.task_uuid,
              score             |-> result.score,
              is_audit_failure  |-> result.is_audit_failure,
              audit             |-> JsonLoads(result.audit),
              generated_by_user |-> result.generated_by_user]

_get_existing_audit_chat(rows, chat_uuid) ==
    IF RowsOf(rows, chat_uuid) = {} THEN None
    ELSE LET r == SelectOne(rows, chat_uuid)
         IN  [chat_uuid |-> r.task_uuid,
              score     |-> r.score,
              comments  |-> r.comments]

\* the id column is the primary key
PkViolation(rows, row) == \E r \in rows : r.id = row.id

\* no uniqueness constraint on the interaction's id
TaskUuidViolation_Absent(rows, row) == FALSE

\* the uniqueness constraint on the interaction's id
TaskUuidViolation(rows, row) == \E r \in rows : r.task_uuid = row.task_uuid

\* sqlalchemy.exc.IntegrityError raised by the INSERT
IntegrityError(rows, row) == PkViolation(rows, row) \/ TaskUuidViolation(rows, row)

MaxId(rows) ==
    IF rows = {} THEN 0
    ELSE CHOOSE m \in {r.id : r \in rows} : \A r \in rows : r.id <= m

\* _reset_pk_sequence that sets the sequence to MAX(id)
_reset_pk_sequence_AtMax(rows) == MaxId(rows)

\* setval(seq, COALESCE(MAX(id), 0) + 1, false): the next id handed out
_reset_pk_sequence(rows) == MaxId(rows) + 1

\* the column a JSON text of the verdicts goes to only in audits_chats
NoColumn == [none |-> TRUE]

\* the row _insert_audit / _insert_audit_chat writes
AuditRow(id, is_call, task_uuid, score, is_audit_failure, audit, generated_by_user) ==
    [id                |-> id,
     task_uuid         |-> task_uuid,
     score             |-> score,
     is_audit_failure  |-> PyBool(is_audit_failure),
     audit             |-> JsonDumps(audit),
     comments          |-> IF is_call THEN NoColumn ELSE JsonDumps(audit),
     generated_by_user |-> generated_by_user]

\* DELETE FROM audits WHERE task_uuid = :task_uuid
DeleteAudits(rows, task_uuid) == rows \ RowsOf(rows, task_uuid)

\* UPDATE audits SET audit, score, is_audit_failure WHERE task_uuid = ...
UpdateAuditCall(rows, task_uuid, audit_items, calc) ==
    {IF r.task_uuid = task_uuid
     THEN [r EXCEPT !.audit = JsonDumps(audit_items),
                    !.score = calc.score,
                    !.is_audit_failure = PyBool(calc.is_audit_failure)]
     ELSE r : r \in rows}

\* UPDATE audits_chats SET score, comments WHERE chat_uuid = ...
UpdateAuditChat(rows, chat_uuid, audit_items, calc) ==
    {IF r.task_uuid = chat_uuid
     THEN [r EXCEPT !.comments = JsonDumps(audit_items),
                    !.score = calc.score]
     ELSE r : r \in rows}

(***************************************************************************)
(* Drift flag of compute_and_update_audit: the campaign's updated_at       *)
(* against the audit's created_at; a timestamp is <<t>>, or Null when the  *)
(* column is NULL or there is no row                                       *)
(***************************************************************************)
MaxTime == 3

Timestamps == {Null} \cup {<<t>> : t \in 1..MaxTime}

\* _get_campaign_updated_at and _get_audit_created_at: what the query gives,
\* or None when it raises
_get_campaign_updated_at(updated_at, fails) == IF fails THEN Null ELSE updated_at

_get_audit_created_at(created_at, fails) == IF fails THEN Null ELSE created_at

\* Later with the comparison the other way round
Later_Reversed(campaign_ts, created_ts) == campaign_ts[1] < created_ts[1]

\* campaign_ts > created_ts
Later(campaign_ts, created_ts) == campaign_ts[1] > created_ts[1]

\* criteria_changed as compute_and_update_audit computes it for an existing
\* audit of a call or of a chat
criteria_changed(is_call, campaign_ts, created_ts) ==
    IF is_call
    THEN IF campaign_ts # Null
         THEN created_ts # Null /\ Later(campaign_ts, created_ts)
         ELSE FALSE
    ELSE campaign_ts # Null /\ created_ts # Null /\ Later(campaign_ts, created_ts)

(***************************************************************************)
(* Audit Orchestrator: responses and validation                            *)
(***************************************************************************)
Failure(status_code, message) ==
    [success |-> FALSE, status_code |-> status_code, message |-> message]

\* the 200 response of generate_audit_for_call for an audit found
ExistingCallResponse(existing) ==
    [success           |-> TRUE,
     status_code       |-> 200,
     task_uuid         |-> existing.task_uuid,
     score             |-> existing.score,
     is_audit_failure  |-> existing.is_audit_failure,
     audit             |-> existing.audit,
     generated_by_user |-> existing.generated_by_user]

\* the 200 response of generate_audit_for_chat for an audit found
ExistingChatResponse(existing) ==
    [success     |-> TRUE,
     status_code |-> 200,
     task_uuid   |-> existing.chat_uuid,
     score       |-> existing.score,
     audit       |-> JsonLoads(existing.comments)]

\* the 200 response after a generation
GeneratedResponse(task_uuid, calc, answers, username) ==
    [success           |-> TRUE,
     status_code       |-> 200,
     task_uuid         |-> task_uuid,
     score             |-> calc.score,
     is_audit_failure  |-> calc.is_audit_failure,
     audit             |-> answers,
     generated_by_user |-> username]

\* steps 2 to 4 of generate_audit_for_call: None, or the error returned
ValidateCall(it) ==
    IF ~it.found THEN Failure(404, "Task not found")
    ELSE IF it.user_id = Null
         THEN Failure(400, IF it.operator_id # Null THEN "operator unknown"
                                                    ELSE "no operator assigned")
    ELSE IF it.campaign_id = Null THEN Failure(400, "no campaign assigned")
    ELSE IF ~it.campaign_found THEN Failure(409, "no audit sheet for the campaign")
    ELSE IF it.criteria = <<>> THEN Failure(400, "no criteria for the campaign")
    ELSE None

\* steps 2 to 4 of generate_audit_for_chat
ValidateChat(it) ==
    IF ~it.found THEN Failure(404, "Chat not found")
    ELSE IF it.campaign_id = Null THEN Failure(400, "chat has no campaign")
    ELSE IF ~it.campaign_found THEN Failure(409, "campaign does not exist")
    ELSE IF it.criteria = <<>> THEN Failure(400, "no criteria for the chat campaign")
    ELSE None

\* how _generate_audit_with_ai classifies a failure of the call
AiErrors ==
    {Failure(500, "missing API key"),
     Failure(500, "authentication"),
     Failure(500, "model not found"),
     Failure(413, "too long"),
     Failure(408, "timeout"),
     Failure(500, "unexpected AI error")}

InternalError == Failure(500, "unexpected error generating the audit")

\* the exceptions the request to the reasoning service raises, by type
ExceptionTypes ==
    {"AuthenticationError", "NotFoundError", "BadRequestError",
     "APITimeoutError", "RateLimitError", "JSONDecodeError", "KeyError"}

\* the phrases _generate_audit_with_ai looks for in str(e).lower()
Phrases == {"bad request", "timed out", "timeout"}

Exceptions == [type : ExceptionTypes, text : SUBSET Phrases]

\* _classify that reports a timeout as an unexpected error
_classify_TimeoutAsUnknown(has_api_key, e) ==
    IF ~has_api_key THEN Failure(500, "missing API key")
    ELSE IF e.type = "AuthenticationError" THEN Failure(500, "authentication")
    ELSE IF e.type = "NotFoundError" THEN Failure(500, "model not found")
    ELSE IF "bad request" \in e.text THEN Failure(413, "too long")
    ELSE Failure(500, "unexpected AI error")

\* the error dict of _generate_audit_with_ai: without an API key no request
\* is made; otherwise the except clauses are tried in order
_classify(has_api_key, e) ==
    IF ~has_api_key THEN Failure(500, "missing API key")
    ELSE IF e.type = "AuthenticationError" THEN Failure(500, "authentication")
    ELSE IF e.type = "NotFoundError" THEN Failure(500, "model not found")
    ELSE IF "bad request" \in e.text THEN Failure(413, "too long")
    ELSE IF "timed out" \in e.text \/ "timeout" \in e.text
         THEN Failure(408, "timeout")
    ELSE Failure(500, "unexpected AI error")

(***************************************************************************)
(* Inputs of the Orchestrator                                              *)
(***************************************************************************)
MaxRequests == 3

Workers == {"w1", "w2"}

\* the user whose API key each worker's requests carry
UsernameOf == [w \in Workers |-> IF w = "w1" THEN "ana" ELSE "luis"]

MainCriteria ==
    <<[question |-> "q1", target_score |-> 20, is_critical |-> FALSE],
      [question |-> "q2", target_score |-> 30, is_critical |-> TRUE]>>

ValidCall ==
    [is_call        |-> TRUE,
     found          |-> TRUE,
     operator_id    |-> <<"op1">>,
     user_id        |-> <<"op1">>,
     campaign_id    |-> <<7>>,
     campaign_found |-> TRUE,
     approval_score |-> 80,
     criteria       |-> MainCriteria]

ValidChat == [ValidCall EXCEPT !.is_call = FALSE]

Interactions ==
    {ValidCall, ValidChat,
     [ValidCall EXCEPT !.found = FALSE],
     [ValidCall EXCEPT !.user_id = Null],
     [ValidCall EXCEPT !.user_id = Null, !.operator_id = Null],
     [ValidCall EXCEPT !.campaign_id = Null],
     [ValidCall EXCEPT !.campaign_found = FALSE],
     [ValidCall EXCEPT !.criteria = <<>>],
     [ValidChat EXCEPT !.found = FALSE],
     [ValidChat EXCEPT !.campaign_id = Null],
     [ValidChat EXCEPT !.criteria = <<>>]}

\* what the reasoning service is asked to answer for a rubric: one verdict per
\* criterion, in the rubric's order
AiAnswers(criteria) ==
    {[i \in DOMAIN criteria |-> [question |-> criteria[i].question,
                                 complies |-> c[i]]]
     : c \in [DOMAIN criteria -> BOOLEAN]}

\* answers that do not follow the rubric: the last criterion left out, or a
\* verdict added for a question that was not submitted
MalformedAnswers(criteria) ==
    LET compliant == [i \in DOMAIN criteria |->
                         [question |-> criteria[i].question, complies |-> TRUE]]
    IN  IF criteria = <<>> THEN {}
        ELSE {SubSeq(compliant, 1, Len(compliant) - 1),
              Append(compliant, [question |-> "q3", complies |-> FALSE])}

\* json.loads(content) of the reply: its answers are taken as they come
AiResponses(criteria) == AiAnswers(criteria) \cup MalformedAnswers(criteria)

\* verdicts a reviewer submits to compute_and_update_audit
ReviewerItems == AiAnswers(MainCriteria) \cup {<<>>}

IdleRequest ==
    [op |-> "none", pc |-> "idle", username |-> "", answers |-> <<>>,
     calc |-> None, resp |-> None, notification |-> "none",
     base |-> None, seen |-> "no", lost |-> FALSE,
     attempts |-> 0, pkOnly |-> FALSE, aiCalled |-> FALSE,
     replaced |-> FALSE, aiFailed |-> FALSE, inserted |-> FALSE]

(***************************************************************************)
(* Tasks router: app/routers/tasks.py                                      *)
(***************************************************************************)
MaxTasks == 2

TaskUuids == 1..MaxTasks

\* ids of the rows of global_api_keys
ApiKeys == {1, 12}

TaskWorkers == {"t1", "t2"}

RECURSIVE Str(_)
\* str(n) of a natural number: its decimal digits
Str(n) == IF n < 10 THEN <<n>> ELSE Str(n \div 10) \o <<n % 10>>

\* cast(Task.task_params['api_key_id'], Text): the text of the JSON number,
\* NULL when task_params has no such key
CastText(json) == IF json = Null THEN Null ELSE Str(json[1])

\* a uuid no task has yet; a stored row; a uuid whose row was deleted
NewTask == [state |-> "new", api_key_id |-> Null]

StoredTask(api_key_id) == [state |-> "stored", api_key_id |-> api_key_id]

\* the query of get_task and delete_task without the filter on the key
FindTask_AnyKey(store, task_uuid, api_key) ==
    IF store[task_uuid].state = "stored" THEN <<task_uuid>> ELSE Null

\* db.query(Task).filter(Task.uuid == task_uuid,
\*     cast(Task.task_params['api_key_id'], Text) == str(api_key.id)).first()
FindTask(store, task_uuid, api_key) ==
    IF /\ store[task_uuid].state = "stored"
       /\ CastText(store[task_uuid].api_key_id) # Null
       /\ CastText(store[task_uuid].api_key_id) = Str(api_key)
    THEN <<task_uuid>>
    ELSE Null

IdleTaskRequest ==
    [op |-> "none", pc |-> "idle", api_key |-> 0, task_uuid |-> 0,
     status_code |-> 0, seen |-> "none"]

\* an audit of another interaction, inserted with id 1
OtherRow == AuditRow(1, TRUE, OtherUuid, 100, 0, <<>>, "ana")

\* an audit of the interaction generated before its campaign or rubric took
\* their present state: every criterion of the rubric of that time complies
PriorRow(is_call, id) ==
    AuditRow(id, is_call, Uuid, 100, 0,
             [i \in DOMAIN MainCriteria |->
                 [question |-> MainCriteria[i].question, complies |-> TRUE]],
             "luis")

vars ==
    <<scoreCall, limitRow, ledger, now, quotaCall, driftCall, classifyCall,
      tasks, taskReqs, interaction, audits, pkSeq, status, reqs, started, lastGen>>

taskVars == <<tasks, taskReqs>>

scorerQuotaVars ==
    <<scoreCall, limitRow, ledger, now, quotaCall, driftCall, classifyCall,
      taskVars>>

orchVars == <<interaction, audits, pkSeq, status, reqs, started, lastGen>>

ScoreIdle == scoreCall = None

DriftIdle == driftCall = None

ClassifyIdle == classifyCall = None

TasksIdle ==
    /\ tasks = [u \in TaskUuids |-> NewTask]
    /\ taskReqs = [w \in TaskWorkers |-> IdleTaskRequest]

QuotaIdle ==
    /\ limitRow = NoRow
    /\ ledger = [m \in Months |-> NoUsage]
    /\ now = 1
    /\ quotaCall = None

OrchIdle ==
    /\ interaction = ValidCall
    /\ audits = {}
    /\ pkSeq = 1
    /\ status = "completed"
    /\ reqs = [w \in Workers |-> IdleRequest]
    /\ started = 0
    /\ lastGen = None

(***************************************************************************)
(* SpecScore: the Scorer on every input of the bounded sets                *)
(***************************************************************************)
InitScore ==
    /\ ScoreIdle
    /\ DriftIdle
    /\ ClassifyIdle
    /\ TasksIdle
    /\ QuotaIdle
    /\ OrchIdle

Score ==
    /\ scoreCall = None
    /\ \E criteria \in Rubrics, audit_results \in VerdictLists,
          approval_score \in ApprovalScores :
          scoreCall' = [criteria       |-> criteria,
                        audit_results  |-> audit_results,
                        approval_score |-> approval_score,
                        result         |-> _calculate_score(audit_results, criteria,
                                                            approval_score)]
    /\ UNCHANGED <<limitRow, ledger, now, quotaCall, driftCall, classifyCall>>
    /\ UNCHANGED taskVars
    /\ UNCHANGED orchVars

NextScore == Score

SpecScore == InitScore /\ [][NextScore]_vars

(***************************************************************************)
(* SpecQuota: the Quota Gate over policies, usage and ledger faults        *)
(***************************************************************************)
InitQuota ==
    /\ ScoreIdle
    /\ DriftIdle
    /\ ClassifyIdle
    /\ TasksIdle
    /\ limitRow \in LimitRows
    /\ now = 2
    /\ \E prev \in {NoUsage, HeavyUsage}, cur \in Usages :
          ledger = [m \in Months |-> IF m = now THEN cur ELSE prev]
    /\ quotaCall = None
    /\ OrchIdle

CheckQuota ==
    /\ \E policyFails \in BOOLEAN, audioFails \in BOOLEAN, tokenFails \in BOOLEAN :
          quotaCall' = [limit_row   |-> limitRow,
                        usage       |-> ledger[now],
                        policyFails |-> policyFails,
                        audioFails  |-> audioFails,
                        tokenFails  |-> tokenFails,
                        result      |-> check_quota(limitRow, ledger, now, policyFails,
                                                    audioFails, tokenFails)]
    /\ UNCHANGED <<scoreCall, limitRow, ledger, now, driftCall, classifyCall>>
    /\ UNCHANGED taskVars
    /\ UNCHANGED orchVars

NextQuota == CheckQuota

SpecQuota == InitQuota /\ [][NextQuota]_vars

(***************************************************************************)
(* SpecDrift: the drift flag over the timestamps of a campaign and of an   *)
(* audit of either kind, and over failures of the two queries              *)
(***************************************************************************)
InitDrift ==
    /\ ScoreIdle
    /\ DriftIdle
    /\ ClassifyIdle
    /\ TasksIdle
    /\ QuotaIdle
    /\ OrchIdle

ComputeDrift ==
    /\ driftCall = None
    /\ \E is_call \in BOOLEAN, updated_at \in Timestamps, created_at \in Timestamps,
          campaignFails \in BOOLEAN, createdFails \in BOOLEAN :
          driftCall' =
              [is_call       |-> is_call,
               updated_at    |-> updated_at,
               created_at    |-> created_at,
               campaignFails |-> campaignFails,
               createdFails  |-> createdFails,
               criteria_changed |->
                   criteria_changed(is_call,
                                    _get_campaign_updated_at(updated_at, campaignFails),
                                    _get_audit_created_at(created_at, createdFails))]
    /\ UNCHANGED <<scoreCall, limitRow, ledger, now, quotaCall, classifyCall>>
    /\ UNCHANGED taskVars
    /\ UNCHANGED orchVars

NextDrift == ComputeDrift

SpecDrift == InitDrift /\ [][NextDrift]_vars

(***************************************************************************)
(* SpecClassify: _generate_audit_with_ai on every failure of the request   *)
(***************************************************************************)
InitClassify ==
    /\ ScoreIdle
    /\ DriftIdle
    /\ ClassifyIdle
    /\ TasksIdle
    /\ QuotaIdle
    /\ OrchIdle

Classify ==
    /\ classifyCall = None
    /\ \E has_api_key \in BOOLEAN, e \in Exceptions :
          classifyCall' = [has_api_key |-> has_api_key,
                           e           |-> e,
                           result      |-> _classify(has_api_key, e)]
    /\ UNCHANGED <<scoreCall, limitRow, ledger, now, quotaCall, driftCall>>
    /\ UNCHANGED taskVars
    /\ UNCHANGED orchVars

NextClassify == Classify

SpecClassify == InitClassify /\ [][NextClassify]_vars

(***************************************************************************)
(* SpecTasks: the tasks router. Tasks are created by the upload routes     *)
(* with the caller's key id, or by other producers without one; a uuid is  *)
(* a uuid4 and is never given to a second task.                            *)
(***************************************************************************)
InitTasks ==
    /\ ScoreIdle
    /\ DriftIdle
    /\ ClassifyIdle
    /\ QuotaIdle
    /\ OrchIdle
    /\ tasks \in [TaskUuids ->
                    {NewTask} \cup {StoredTask(k) : k \in {Null} \cup
                                                   {<<a>> : a \in ApiKeys}}]
    /\ taskReqs = [w \in TaskWorkers |-> IdleTaskRequest]

\* upload: a task with a fresh uuid and task_params.api_key_id = api_key.id
CreateTask ==
    /\ \E u \in TaskUuids, api_key \in ApiKeys :
          /\ tasks[u].state = "new"
          /\ tasks' = [tasks EXCEPT ![u] = StoredTask(<<api_key>>)]
    /\ UNCHANGED taskReqs
    /\ UNCHANGED <<scoreCall, limitRow, ledger, now, quotaCall, driftCall,
                   classifyCall>>
    /\ UNCHANGED orchVars

\* GET /tasks/{task_uuid}
get_task(w) ==
    /\ taskReqs[w].pc # "delete"
    /\ \E task_uuid \in TaskUuids, api_key \in ApiKeys :
          LET task == FindTask(tasks, task_uuid, api_key)
          IN  taskReqs' = [taskReqs EXCEPT ![w] =
                  [op          |-> "GET",
                   pc          |-> "done",
                   api_key     |-> api_key,
                   task_uuid   |-> task_uuid,
                   status_code |-> IF task = Null THEN 404 ELSE 200,
                   seen        |-> tasks[task_uuid].state]]
    /\ UNCHANGED tasks
    /\ UNCHANGED <<scoreCall, limitRow, ledger, now, quotaCall, driftCall,
                   classifyCall>>
    /\ UNCHANGED orchVars

\* DELETE /tasks/{task_uuid}: the query
delete_task(w) ==
    /\ taskReqs[w].pc # "delete"
    /\ \E task_uuid \in TaskUuids, api_key \in ApiKeys :
          LET task == FindTask(tasks, task_uuid, api_key)
          IN  taskReqs' = [taskReqs EXCEPT ![w] =
                  [op          |-> "DELETE",
                   pc          |-> IF task = Null THEN "done" ELSE "delete",
                   api_key     |-> api_key,
                   task_uuid   |-> task_uuid,
                   status_code |-> IF task = Null THEN 404 ELSE 0,
                   seen        |-> tasks[task_uuid].state]]
    /\ UNCHANGED tasks
    /\ UNCHANGED <<scoreCall, limitRow, ledger, now, quotaCall, driftCall,
                   classifyCall>>
    /\ UNCHANGED orchVars

\* DELETE /tasks/{task_uuid}: db.delete(task); db.commit(). A row that another
\* request deleted since the query matches no row and stays deleted.
DeleteCommit(w) ==
    /\ taskReqs[w].pc = "delete"
    /\ tasks' = [tasks EXCEPT ![taskReqs[w].task_uuid].state = "deleted"]
    /\ taskReqs' = [taskReqs EXCEPT ![w].pc = "done", ![w].status_code = 204]
    /\ UNCHANGED <<scoreCall, limitRow, ledger, now, quotaCall, driftCall,
                   classifyCall>>
    /\ UNCHANGED orchVars

NextTasks ==
    \/ CreateTask
    \/ \E w \in TaskWorkers : get_task(w)
    \/ \E w \in TaskWorkers : delete_task(w)
    \/ \E w \in TaskWorkers : DeleteCommit(w)

SpecTasks == InitTasks /\ [][NextTasks]_vars

(***************************************************************************)
(* Spec: the Audit Orchestrator. Each worker serves one request at a time; *)
(* a request is a sequence of steps, one per database transaction or       *)
(* external call, and the steps of the workers interleave.                 *)
(***************************************************************************)
InitOrch ==
    /\ interaction \in Interactions
    /\ \E desync \in BOOLEAN, other \in BOOLEAN, prior \in BOOLEAN :
          /\ prior => ~other /\ ~desync
          /\ audits = (IF other THEN {OtherRow} ELSE {})
                         \cup (IF prior
                               THEN {PriorRow(interaction.is_call, 1)}
                               ELSE {})
          /\ pkSeq = IF desync THEN 1 ELSE Cardinality(audits) + 1
          /\ status = IF prior THEN "audited" ELSE "completed"
    /\ reqs = [w \in Workers |-> IdleRequest]
    /\ started = 0
    /\ lastGen = None

Init ==
    /\ ScoreIdle
    /\ DriftIdle
    /\ ClassifyIdle
    /\ TasksIdle
    /\ QuotaIdle
    /\ InitOrch

Succeeded(r) == r.resp # None /\ r.resp.success

\* the response a finished, successful generation leaves for later calls to be
\* compared with, unless a Regenerate has reset the interaction since
Remember(r) ==
    IF r.pc = "done" /\ Succeeded(r) /\ r.seen # "no"
    THEN [resp |-> r.resp, corrected |-> r.seen = "corrected"]
    ELSE lastGen

\* AfterCheck that asks check_quota before the reasoning service is called
AfterCheck_QuotaGated(r) ==
    LET existing == IF interaction.is_call
                    THEN _get_existing_audit(audits, Uuid)
                    ELSE _get_existing_audit_chat(audits, Uuid)
        invalid  == IF interaction.is_call
                    THEN ValidateCall(interaction)
                    ELSE ValidateChat(interaction)
    IN  IF existing # None
        THEN [r EXCEPT !.pc = "done", !.seen = "clean",
                       !.resp = IF interaction.is_call
                                THEN ExistingCallResponse(existing)
                                ELSE ExistingChatResponse(existing)]
        ELSE IF invalid # None
        THEN [r EXCEPT !.pc = "done", !.resp = invalid]
        ELSE IF ~check_quota(limitRow, ledger, now, FALSE, FALSE, FALSE).allowed
        THEN [r EXCEPT !.pc = "done", !.resp = Failure(429, "quota exceeded")]
        ELSE [r EXCEPT !.pc = "ai"]

\* AfterCheck that validates the interaction before it looks for an audit
AfterCheck_ValidationFirst(r) ==
    LET existing == IF interaction.is_call
                    THEN _get_existing_audit(audits, Uuid)
                    ELSE _get_existing_audit_chat(audits, Uuid)
        invalid  == IF interaction.is_call
                    THEN ValidateCall(interaction)
                    ELSE ValidateChat(interaction)
    IN  IF invalid # None
        THEN [r EXCEPT !.pc = "done", !.resp = invalid]
        ELSE IF existing # None
        THEN [r EXCEPT !.pc = "done", !.seen = "clean",
                       !.resp = IF interaction.is_call
                                THEN ExistingCallResponse(existing)
                                ELSE ExistingChatResponse(existing)]
        ELSE [r EXCEPT !.pc = "ai"]

\* AfterCheck without step 1, the look-up of an existing audit
AfterCheck_NoExistingCheck(r) ==
    LET invalid == IF interaction.is_call
                   THEN ValidateCall(interaction)
                   ELSE ValidateChat(interaction)
    IN  IF invalid # None
        THEN [r EXCEPT !.pc = "done", !.resp = invalid]
        ELSE [r EXCEPT !.pc = "ai"]

\* AfterCheck that calls the reasoning service before it validates
AfterCheck_AiBeforeValidation(r) ==
    LET existing == IF interaction.is_call
                    THEN _get_existing_audit(audits, Uuid)
                    ELSE _get_existing_audit_chat(audits, Uuid)
        invalid  == IF interaction.is_call
                    THEN ValidateCall(interaction)
                    ELSE ValidateChat(interaction)
    IN  IF existing # None
        THEN [r EXCEPT !.pc = "done", !.seen = "clean",
                       !.resp = IF interaction.is_call
                                THEN ExistingCallResponse(existing)
                                ELSE ExistingChatResponse(existing)]
        ELSE IF invalid # None
        THEN [r EXCEPT !.pc = "done", !.resp = invalid, !.aiCalled = TRUE]
        ELSE [r EXCEPT !.pc = "ai"]

\* steps 1 to 4 of generate_audit_for_call / generate_audit_for_chat
AfterCheck(r) ==
    LET existing == IF interaction.is_call
                    THEN _get_existing_audit(audits, Uuid)
                    ELSE _get_existing_audit_chat(audits, Uuid)
        invalid  == IF interaction.is_call
                    THEN ValidateCall(interaction)
                    ELSE ValidateChat(interaction)
    IN  IF existing # None
        THEN [r EXCEPT !.pc = "done", !.seen = "clean",
                       !.resp = IF interaction.is_call
                                THEN ExistingCallResponse(existing)
                                ELSE ExistingChatResponse(existing)]
        ELSE IF invalid # None
        THEN [r EXCEPT !.pc = "done", !.resp = invalid]
        ELSE [r EXCEPT !.pc = "ai"]

\* POST audit.generate: generate_audit_for_call / _for_chat up to the AI call
Generate(w) ==
    /\ reqs[w].pc = "idle"
    /\ started < MaxRequests
    /\ LET r == AfterCheck([IdleRequest EXCEPT !.op = "generate",
                                               !.username = UsernameOf[w],
                                               !.base = lastGen])
       IN  /\ reqs' = [reqs EXCEPT ![w] = r]
           /\ lastGen' = Remember(r)
    /\ started' = started + 1
    /\ UNCHANGED <<interaction, audits, pkSeq, status>>
    /\ UNCHANGED scorerQuotaVars

\* regenerate_audit, step 1: reset the status and delete the audit
Regenerate(w) ==
    /\ reqs[w].pc = "idle"
    /\ started < MaxRequests
    /\ reqs' = [v \in Workers |->
                  IF v = w
                  THEN [IdleRequest EXCEPT !.op = "regenerate", !.pc = "check",
                                           !.username = UsernameOf[w],
                                           !.replaced = RowsOf(audits, Uuid) # {}]
                  ELSE [reqs[v] EXCEPT !.base = None, !.seen = "no"]]
    /\ status' = "completed"
    /\ audits' = DeleteAudits(audits, Uuid)
    /\ lastGen' = None
    /\ started' = started + 1
    /\ UNCHANGED <<interaction, pkSeq>>
    /\ UNCHANGED scorerQuotaVars

\* regenerate_audit, step 2: the generation it re-invokes, up to the AI call
Check(w) ==
    /\ reqs[w].pc = "check"
    /\ LET r == AfterCheck(reqs[w])
       IN  /\ reqs' = [reqs EXCEPT ![w] = r]
           /\ lastGen' = Remember(r)
    /\ UNCHANGED <<interaction, audits, pkSeq, status, started>>
    /\ UNCHANGED scorerQuotaVars

\* AfterAiError without the test for "error" in the result: the generation
\* goes on with no verdicts
AfterAiError_Unchecked(r, error) ==
    [r EXCEPT !.pc = "insert", !.aiCalled = TRUE, !.aiFailed = TRUE,
              !.answers = <<>>,
              !.calc = _calculate_score(<<>>, interaction.criteria,
                                        interaction.approval_score)]

\* step 6 when _generate_audit_with_ai returns a classified error: the
\* generation returns it
AfterAiError(r, error) ==
    [r EXCEPT !.pc = "done", !.aiCalled = TRUE, !.aiFailed = TRUE,
              !.resp = error]

\* steps 6 and 7: _generate_audit_with_ai, then _calculate_score
CallAi(w) ==
    /\ reqs[w].pc = "ai"
    /\ \/ \E error \in AiErrors :
             reqs' = [reqs EXCEPT ![w] = AfterAiError(reqs[w], error)]
       \/ \E answers \in AiResponses(interaction.criteria) :
             reqs' = [reqs EXCEPT
                        ![w].pc = "insert",
                        ![w].aiCalled = TRUE,
                        ![w].answers = answers,
                        ![w].calc = _calculate_score(answers, interaction.criteria,
                                                     interaction.approval_score)]
    /\ UNCHANGED <<interaction, audits, pkSeq, status, started, lastGen>>
    /\ UNCHANGED scorerQuotaVars

\* the row a request is about to insert, with the id the sequence hands out
NewRow(r) ==
    AuditRow(pkSeq, interaction.is_call, Uuid, r.calc.score,
             r.calc.is_audit_failure, r.answers, r.username)

\* step 8, _insert_audit / _insert_audit_chat: the first INSERT
Insert(w) ==
    /\ reqs[w].pc = "insert"
    /\ pkSeq' = pkSeq + 1
    /\ IF IntegrityError(audits, NewRow(reqs[w]))
       THEN /\ reqs' = [reqs EXCEPT
                          ![w].pc = "resetseq",
                          ![w].attempts = 1,
                          ![w].pkOnly = ~TaskUuidViolation(audits, NewRow(reqs[w])),
                          ![w].lost = TaskUuidViolation(audits, NewRow(reqs[w]))]
            /\ UNCHANGED audits
       ELSE /\ audits' = audits \cup {NewRow(reqs[w])}
            /\ reqs' = [reqs EXCEPT ![w].pc = "status", ![w].seen = "clean",
                                    ![w].attempts = 1, ![w].inserted = TRUE]
    /\ UNCHANGED <<interaction, status, started, lastGen>>
    /\ UNCHANGED scorerQuotaVars

\* after the rollback: _reset_pk_sequence
ResetSequence(w) ==
    /\ reqs[w].pc = "resetseq"
    /\ pkSeq' = _reset_pk_sequence(audits)
    /\ reqs' = [reqs EXCEPT ![w].pc = "retry"]
    /\ UNCHANGED <<interaction, audits, status, started, lastGen>>
    /\ UNCHANGED scorerQuotaVars

\* the second INSERT; its IntegrityError reaches the handler of the request
RetryInsert(w) ==
    /\ reqs[w].pc = "retry"
    /\ pkSeq' = pkSeq + 1
    /\ IF IntegrityError(audits, NewRow(reqs[w]))
       THEN /\ reqs' = [reqs EXCEPT
                          ![w].pc = "done",
                          ![w].resp = InternalError,
                          ![w].attempts = 2,
                          ![w].lost = TaskUuidViolation(audits, NewRow(reqs[w]))]
            /\ UNCHANGED audits
       ELSE /\ audits' = audits \cup {NewRow(reqs[w])}
            /\ reqs' = [reqs EXCEPT ![w].pc = "status", ![w].seen = "clean",
                                    ![w].attempts = 2, ![w].inserted = TRUE]
    /\ UNCHANGED <<interaction, status, started, lastGen>>
    /\ UNCHANGED scorerQuotaVars

\* step 9: _update_task_status / UPDATE chats SET status = 'audited', in a
\* transaction of its own after the INSERT was committed; when the UPDATE
\* raises, the handler of the request rolls back an empty transaction and
\* returns the 500
UpdateStatus(w) ==
    /\ reqs[w].pc = "status"
    /\ \E raises \in BOOLEAN :
          IF raises
          THEN /\ reqs' = [reqs EXCEPT ![w].pc = "done",
                                       ![w].resp = InternalError]
               /\ UNCHANGED status
          ELSE /\ status' = "audited"
               /\ reqs' = [reqs EXCEPT ![w].pc = "notify"]
    /\ UNCHANGED <<interaction, audits, pkSeq, started, lastGen>>
    /\ UNCHANGED scorerQuotaVars

\* what became of the notification: none is attempted for a chat without an
\* operator
NotificationOutcome(delivered) ==
    IF ~interaction.is_call /\ interaction.operator_id = Null
    THEN "none"
    ELSE IF delivered THEN "sent" ELSE "failed"

\* AfterNotify that lets the exception of the notification reach the handler
\* of the request
AfterNotify_Propagates(r, delivered) ==
    [r EXCEPT !.pc = "done",
              !.notification = NotificationOutcome(delivered),
              !.resp = IF NotificationOutcome(delivered) = "failed"
                       THEN InternalError
                       ELSE GeneratedResponse(Uuid, r.calc, r.answers, r.username)]

\* steps 9b and 10: the notification, whose failure is only logged, and the
\* 200 response
AfterNotify(r, delivered) ==
    [r EXCEPT !.pc = "done",
              !.notification = NotificationOutcome(delivered),
              !.resp = GeneratedResponse(Uuid, r.calc, r.answers, r.username)]

Notify(w) ==
    /\ reqs[w].pc = "notify"
    /\ \E delivered \in BOOLEAN :
          LET r == AfterNotify(reqs[w], delivered)
          IN  /\ reqs' = [reqs EXCEPT ![w] = r]
              /\ lastGen' = Remember(r)
    /\ UNCHANGED <<interaction, audits, pkSeq, status, started>>
    /\ UNCHANGED scorerQuotaVars

\* compute_and_update_audit: None, or the error returned before the UPDATE
ApplyError(audit_items) ==
    LET existing == IF interaction.is_call
                    THEN _get_existing_audit(audits, Uuid)
                    ELSE _get_existing_audit_chat(audits, Uuid)
    IN  IF audit_items = <<>> THEN Failure(400, "MISSING_FIELDS")
        ELSE IF interaction.is_call /\ existing = None
             THEN Failure(404, "NOT_FOUND audit")
        ELSE IF ~interaction.found THEN Failure(404, "NOT_FOUND interaction")
        ELSE IF ~interaction.is_call /\ existing = None
             THEN Failure(404, "NOT_FOUND chat audit")
        ELSE IF interaction.campaign_id = Null \/ ~interaction.campaign_found
             THEN Failure(409, "MISSING_CAMPAIGN")
        ELSE None

\* compute_and_update_audit: a reviewer's corrected verdicts are scored again
\* and written over the audit
ApplyCorrectedVerdicts(w) ==
    /\ reqs[w].pc = "idle"
    /\ started < MaxRequests
    /\ started' = started + 1
    /\ \E audit_items \in ReviewerItems :
          LET error == ApplyError(audit_items)
              calc  == _calculate_score(audit_items, interaction.criteria,
                                        interaction.approval_score)
              mine  == [IdleRequest EXCEPT !.op = "apply", !.pc = "done",
                                           !.answers = audit_items]
          IN  IF error # None
              THEN /\ reqs' = [reqs EXCEPT ![w] = [mine EXCEPT !.resp = error]]
                   /\ UNCHANGED <<audits, lastGen>>
              ELSE /\ audits' = IF interaction.is_call
                                THEN UpdateAuditCall(audits, Uuid, audit_items, calc)
                                ELSE UpdateAuditChat(audits, Uuid, audit_items, calc)
                   /\ reqs' = [v \in Workers |->
                                IF v = w
                                THEN [mine EXCEPT
                                        !.calc = calc,
                                        !.resp = [success          |-> TRUE,
                                                  status_code      |-> 200,
                                                  task_uuid        |-> Uuid,
                                                  score            |-> calc.score,
                                                  is_audit_failure |-> calc.is_audit_failure,
                                                  audit            |-> audit_items]]
                                ELSE [reqs[v] EXCEPT
                                        !.seen = IF @ = "no" THEN "no" ELSE "corrected",
                                        !.base = IF @ = None THEN None
                                                 ELSE [@ EXCEPT !.corrected = TRUE]]]
                   /\ lastGen' = IF lastGen = None THEN None
                                 ELSE [lastGen EXCEPT !.corrected = TRUE]
    /\ UNCHANGED <<interaction, pkSeq, status>>
    /\ UNCHANGED scorerQuotaVars

\* the response is sent and the worker is free again
Return(w) ==
    /\ reqs[w].pc = "done"
    /\ reqs' = [reqs EXCEPT ![w] = IdleRequest]
    /\ UNCHANGED <<interaction, audits, pkSeq, status, started, lastGen>>
    /\ UNCHANGED scorerQuotaVars

Next ==
    \E w \in Workers :
        \/ Generate(w)
        \/ Regenerate(w)
        \/ Check(w)
        \/ CallAi(w)
        \/ Insert(w)
        \/ ResetSequence(w)
        \/ RetryInsert(w)
        \/ UpdateStatus(w)
        \/ Notify(w)
        \/ ApplyCorrectedVerdicts(w)
        \/ Return(w)

Spec == Init /\ [][Next]_vars

(***************************************************************************)
(* Properties of the Scorer (checked under SpecScore)                      *)
(***************************************************************************)
Scored == scoreCall # None

RECURSIVE SumTo(_, _)
SumTo(f, n) == IF n = 0 THEN 0 ELSE SumTo(f, n - 1) + f[n]

\* some verdict with complies = false has the question of a critical criterion
CriticalNonCompliant(call) ==
    \E i \in DOMAIN call.criteria, j \in DOMAIN call.audit_results :
        /\ call.criteria[i].is_critical
        /\ call.audit_results[j].question = call.criteria[i].question
        /\ ~call.audit_results[j].complies

\* the target score a non-compliant verdict costs: that of the first criterion
\* of the rubric with the verdict's question, when the criterion is as wanted
Cost(call, j, wanted(_)) ==
    LET v == call.audit_results[j]
        m == {i \in DOMAIN call.criteria : call.criteria[i].question = v.question}
        c == call.criteria[CHOOSE i \in m : \A k \in m : i <= k]
    IN  IF ~v.complies /\ m # {} /\ wanted(c) THEN c.target_score ELSE 0

NonCritical(c) == ~c.is_critical

AnyCriterion(c) == TRUE

NonCriticalDeductions(call) ==
    SumTo([j \in DOMAIN call.audit_results |-> Cost(call, j, NonCritical)],
          Len(call.audit_results))

AllDeductions(call) ==
    SumTo([j \in DOMAIN call.audit_results |-> Cost(call, j, AnyCriterion)],
          Len(call.audit_results))

\* C4: whenever some critical criterion has a verdict with complies = false,
\* Score returns exactly (0, failure), whatever the other verdicts and their
\* order.
C4_CriticalShortCircuit ==
    (Scored /\ CriticalNonCompliant(scoreCall))
        => scoreCall.result = [score |-> 0, is_audit_failure |-> 1]

\* C5: when no critical criterion is non-compliant, the score is 100 minus the
\* target scores of the non-critical criteria matched by non-compliant
\* verdicts, floored at 0.
C5_DeductionSum ==
    (Scored /\ ~CriticalNonCompliant(scoreCall))
        => scoreCall.result.score = Max(0, 100 - NonCriticalDeductions(scoreCall))

\* target scores [10, 20, 5], only the second verdict non-compliant: score 80
C5_Witness ==
    /\ Scored
    /\ [i \in DOMAIN scoreCall.criteria |-> scoreCall.criteria[i].target_score]
           = <<10, 20, 5>>
    /\ scoreCall.audit_results
           = <<[question |-> "q1", complies |-> TRUE],
               [question |-> "q2", complies |-> FALSE],
               [question |-> "q3", complies |-> TRUE]>>
    /\ [i \in DOMAIN scoreCall.criteria |-> scoreCall.criteria[i].question]
           = <<"q1", "q2", "q3">>
    /\ ~CriticalNonCompliant(scoreCall)
    /\ scoreCall.result.score = 80

\* C6, on the inputs that take no critical short-circuit: the returned failure
\* flag is set exactly when the returned (clamped) score is strictly below the
\* approval threshold; a returned score equal to the threshold is no failure.
C6_FailureIffBelowThreshold ==
    (Scored /\ ~CriticalNonCompliant(scoreCall))
        => (scoreCall.result.is_audit_failure = 1
                <=> scoreCall.result.score < scoreCall.approval_score)

\* C7: the returned score lies in 0..100, and deductions that sum above 100
\* give exactly 0.
C7_ScoreClamped ==
    Scored => /\ scoreCall.result.score \in 0..100
              /\ AllDeductions(scoreCall) > 100 => scoreCall.result.score = 0

C7_Witness ==
    /\ Scored
    /\ ~CriticalNonCompliant(scoreCall)
    /\ AllDeductions(scoreCall) > 100
    /\ scoreCall.result.score = 0

\* the reorderings of a list of n elements
Reorderings(n) == {p \in [1..n -> 1..n] : \A i, j \in 1..n : p[i] = p[j] => i = j}

Reordered(seq, p) == [i \in DOMAIN seq |-> seq[p[i]]]

\* C20: verdicts are matched to criteria by question text, not by position:
\* every reordering of the verdict list gives the same score and failure flag,
\* for every rubric, threshold and verdict list.
C20_OrderIndependent ==
    Scored =>
        \A p \in Reorderings(Len(scoreCall.audit_results)) :
            _calculate_score(Reordered(scoreCall.audit_results, p),
                             scoreCall.criteria, scoreCall.approval_score)
                = scoreCall.result

\* the questions of a list of verdicts or of criteria
Questions(seq) == {seq[i].question : i \in DOMAIN seq}

\* the verdicts whose question is the question of some criterion
MatchedVerdicts(call) ==
    SelectSeq(call.audit_results,
              LAMBDA v : v.question \in Questions(call.criteria))

\* the criteria for whose question some verdict was returned
AnsweredCriteria(call) ==
    SelectSeq(call.criteria,
              LAMBDA c : c.question \in Questions(call.audit_results))

\* C21: the verdicts whose question matches no criterion change neither the
\* score nor the failure flag, and the criteria without a verdict, critical or
\* not, cause no deduction and no critical failure: the result is that of the
\* matched verdicts against the answered criteria alone.
C21_UnmatchedIgnored ==
    Scored =>
        /\ _calculate_score(MatchedVerdicts(scoreCall), scoreCall.criteria,
                            scoreCall.approval_score) = scoreCall.result
        /\ _calculate_score(scoreCall.audit_results, AnsweredCriteria(scoreCall),
                            scoreCall.approval_score) = scoreCall.result
        /\ MatchedVerdicts(scoreCall) = <<>>
              => scoreCall.result
                   = [score |-> 100,
                      is_audit_failure |-> IF 100 < scoreCall.approval_score
                                           THEN 1 ELSE 0]

\* a non-compliant verdict for a question outside the rubric, and a critical
\* criterion without a verdict: score 100, no failure
C21_Witness ==
    /\ Scored
    /\ \E j \in DOMAIN scoreCall.audit_results :
          /\ ~scoreCall.audit_results[j].complies
          /\ scoreCall.audit_results[j].question \notin Questions(scoreCall.criteria)
    /\ \E i \in DOMAIN scoreCall.criteria :
          /\ scoreCall.criteria[i].is_critical
          /\ scoreCall.criteria[i].question \notin Questions(scoreCall.audit_results)
    /\ scoreCall.result = [score |-> 100, is_audit_failure |-> 0]

(***************************************************************************)
(* Properties of the Quota Gate (checked under SpecQuota)                  *)
(***************************************************************************)
Checked == quotaCall # None

HasPolicy(call) == call.limit_row # NoRow

NoFault(call) == ~call.policyFails /\ ~call.audioFails /\ ~call.tokenFails

Dimensions == <<"audio", "tokens", "usd">>

LimitOf(call, d) ==
    CASE d = "audio"  -> call.limit_row.monthly_audio_minutes_limit
      [] d = "tokens" -> call.limit_row.monthly_token_limit
      [] d = "usd"    -> call.limit_row.monthly_usd_limit

UsedOf(call, d) ==
    CASE d = "audio"  -> call.usage.audio_minutes
      [] d = "tokens" -> call.usage.tokens
      [] d = "usd"    -> call.usage.usd

\* dimension number k is configured and its usage is at or above its limit
AtOrAbove(call, k) ==
    /\ LimitOf(call, Dimensions[k]) # Null
    /\ UsedOf(call, Dimensions[k]) >= LimitOf(call, Dimensions[k])[1]

\* C8: a policy in soft mode is always allowed, with no reason, whatever the
\* usage and the limits.
C8_SoftNeverBlocks ==
    (Checked /\ HasPolicy(quotaCall)
             /\ quotaCall.limit_row.enforcement_mode = "soft")
        => /\ quotaCall.result.allowed
           /\ quotaCall.result.reason = NoReason

\* soft mode, every limit 100, every usage 500, no fault: allowed
C8_Witness ==
    /\ Checked /\ HasPolicy(quotaCall) /\ NoFault(quotaCall)
    /\ quotaCall.limit_row.enforcement_mode = "soft"
    /\ \A k \in DOMAIN Dimensions :
          /\ LimitOf(quotaCall, Dimensions[k]) = <<100>>
          /\ UsedOf(quotaCall, Dimensions[k]) = 500
    /\ quotaCall.result.allowed

\* C9: in hard mode, with the policy and the ledger readable, the gate denies
\* exactly when some configured dimension is at or above its limit, and the
\* reason names the first such dimension in the order audio, tokens, USD.
C9_HardDeniesAtLimit ==
    (Checked /\ HasPolicy(quotaCall) /\ NoFault(quotaCall)
             /\ quotaCall.limit_row.enforcement_mode = "hard")
        => /\ quotaCall.result.allowed
                <=> ~\E k \in DOMAIN Dimensions : AtOrAbove(quotaCall, k)
           /\ quotaCall.result.allowed => quotaCall.result.reason = NoReason
           /\ ~quotaCall.result.allowed =>
                \E k \in DOMAIN Dimensions :
                    /\ AtOrAbove(quotaCall, k)
                    /\ \A h \in 1..(k - 1) : ~AtOrAbove(quotaCall, h)
                    /\ quotaCall.result.reason
                         = [dimension |-> Dimensions[k],
                            used      |-> UsedOf(quotaCall, Dimensions[k]),
                            limit     |-> LimitOf(quotaCall, Dimensions[k])[1]]

\* hard mode, audio limit 100, audio usage exactly 100: denied for audio
C9_Witness ==
    /\ Checked /\ HasPolicy(quotaCall) /\ NoFault(quotaCall)
    /\ quotaCall.limit_row.enforcement_mode = "hard"
    /\ quotaCall.limit_row.monthly_audio_minutes_limit = <<100>>
    /\ quotaCall.usage.audio_minutes = 100
    /\ ~quotaCall.result.allowed
    /\ quotaCall.result.reason.dimension = "audio"

\* C10: with no policy row the gate allows, with no reason, and has read
\* nothing but the policy table, whatever the usage.
C10_NoPolicyAllowsUnread ==
    (Checked /\ ~HasPolicy(quotaCall))
        => /\ quotaCall.result.allowed
           /\ quotaCall.result.reason = NoReason
           /\ quotaCall.result.queries = PolicyQuery

\* no policy row, heavy usage of the current month, no fault: allowed
C10_Witness ==
    /\ Checked /\ ~HasPolicy(quotaCall) /\ NoFault(quotaCall)
    /\ quotaCall.usage = HeavyUsage
    /\ quotaCall.result.allowed

\* the call read the Usage Ledger (hard mode, policy row found) and one of the
\* two reads failed
LedgerReadFailed(call) ==
    /\ ~call.policyFails
    /\ HasPolicy(call)
    /\ call.limit_row.enforcement_mode = "hard"
    /\ call.audioFails \/ call.tokenFails

\* C11: the gate fails open: when the policy lookup fails, or in hard mode a
\* read of the Usage Ledger fails, the gate allows, whatever the limits.
C11_FailsOpen ==
    (Checked /\ (quotaCall.policyFails \/ LedgerReadFailed(quotaCall)))
        => quotaCall.result.allowed

(***************************************************************************)
(* Properties of the drift flag (checked under SpecDrift)                  *)
(***************************************************************************)
\* the flag was computed from both timestamps
DriftRead(call) ==
    /\ call.updated_at # Null /\ call.created_at # Null
    /\ ~call.campaignFails /\ ~call.createdFails

\* C22: an audit of a call or of a chat created before the campaign's last
\* modification is reported with criteria_changed = true, and one created
\* after it with criteria_changed = false.
C22_DriftFlag ==
    (driftCall # None /\ DriftRead(driftCall))
        => /\ driftCall.created_at[1] < driftCall.updated_at[1]
                 => driftCall.criteria_changed
           /\ driftCall.created_at[1] > driftCall.updated_at[1]
                 => ~driftCall.criteria_changed

\* a chat audit created at 1 for a campaign modified at 2: flagged
C22_Witness ==
    /\ driftCall # None /\ DriftRead(driftCall)
    /\ ~driftCall.is_call
    /\ driftCall.created_at = <<1>>
    /\ driftCall.updated_at = <<2>>
    /\ driftCall.criteria_changed

\* the dimensions of the policy whose limit is NULL
Unlimited(call) == {d \in {"audio", "tokens", "usd"} : LimitOf(call, d) = Null}

\* C29: in hard mode a dimension whose limit is NULL is unlimited: no denial
\* names it, whatever its usage and whatever query failed, and a policy
\* whose three limits are NULL is allowed, with no reason.
C29_NullLimitUnlimited ==
    (Checked /\ HasPolicy(quotaCall)
             /\ quotaCall.limit_row.enforcement_mode = "hard")
        => /\ ~quotaCall.result.allowed
                => quotaCall.result.reason.dimension \notin Unlimited(quotaCall)
           /\ Unlimited(quotaCall) = {"audio", "tokens", "usd"}
                => /\ quotaCall.result.allowed
                   /\ quotaCall.result.reason = NoReason

\* a hard policy with no limit at all was allowed at heavy usage
C29_Witness ==
    /\ Checked /\ HasPolicy(quotaCall) /\ NoFault(quotaCall)
    /\ quotaCall.limit_row.enforcement_mode = "hard"
    /\ Unlimited(quotaCall) = {"audio", "tokens", "usd"}
    /\ quotaCall.usage = HeavyUsage
    /\ quotaCall.result.allowed

(***************************************************************************)
(* Properties of the error classes (checked under SpecClassify)            *)
(***************************************************************************)
ErrorClasses ==
    {"AuthFailure", "ModelUnavailable", "PayloadTooLarge", "Timeout", "Unknown"}

\* the messages under which each class reaches the Orchestrator
MessagesOf(class) ==
    CASE class = "AuthFailure"      -> {"missing API key", "authentication"}
      [] class = "ModelUnavailable" -> {"model not found"}
      [] class = "PayloadTooLarge"  -> {"too long"}
      [] class = "Timeout"          -> {"timeout"}
      [] class = "Unknown"          -> {"unexpected AI error"}

\* the class of a failure: a missing key or a rejected key, an unknown model,
\* a request refused as bad, a request that timed out, anything else
ClassOf(has_api_key, e) ==
    IF ~has_api_key \/ e.type = "AuthenticationError" THEN "AuthFailure"
    ELSE IF e.type = "NotFoundError" THEN "ModelUnavailable"
    ELSE IF "bad request" \in e.text THEN "PayloadTooLarge"
    ELSE IF e.text # {} THEN "Timeout"
    ELSE "Unknown"

\* C23: every failure of the call of the reasoning service falls into exactly
\* one of the five classes and reaches the Orchestrator as an error with a
\* message of its class, which is the message of no other class.
C23_ClassifiedDistinctly ==
    classifyCall # None =>
        LET class == ClassOf(classifyCall.has_api_key, classifyCall.e)
        IN  /\ ~classifyCall.result.success
            /\ classifyCall.result \in AiErrors
            /\ \A c \in ErrorClasses :
                  classifyCall.result.message \in MessagesOf(c) <=> c = class

\* a request that timed out, with a key: the timeout message, status 408
C23_Witness ==
    /\ classifyCall # None
    /\ classifyCall.has_api_key
    /\ classifyCall.e = [type |-> "APITimeoutError", text |-> {"timed out"}]
    /\ classifyCall.result = Failure(408, "timeout")

(***************************************************************************)
(* SpecGate: the requests of one worker, generations only, started under   *)
(* each of a few quota policies and usages of the campaign.                *)
(***************************************************************************)
UniformRow(limit, enforcement_mode) ==
    [monthly_audio_minutes_limit |-> limit,
     monthly_token_limit         |-> limit,
     monthly_usd_limit           |-> limit,
     enforcement_mode            |-> enforcement_mode]

GatePolicies ==
    {NoRow, UniformRow(<<100>>, "soft"), UniformRow(<<100>>, "hard"),
     UniformRow(Null, "hard")}

InitGate ==
    /\ ScoreIdle
    /\ DriftIdle
    /\ ClassifyIdle
    /\ TasksIdle
    /\ limitRow \in GatePolicies
    /\ now = 2
    /\ \E cur \in {NoUsage, HeavyUsage} :
          ledger = [m \in Months |-> IF m = now THEN cur ELSE NoUsage]
    /\ quotaCall = None
    /\ InitOrch

NextGate ==
    \/ Generate("w1")
    \/ CallAi("w1")
    \/ Insert("w1")
    \/ ResetSequence("w1")
    \/ RetryInsert("w1")
    \/ UpdateStatus("w1")
    \/ Notify("w1")
    \/ Return("w1")

SpecGate == InitGate /\ [][NextGate]_vars

(***************************************************************************)
(* Properties of the tasks router (checked under SpecTasks)                *)
(***************************************************************************)
\* the key whose id is recorded in the task_params of a stored task
OwnedBy(row, api_key) == row.state = "stored" /\ row.api_key_id = <<api_key>>

\* worker w answers its request in this step
TaskReturned(w) == taskReqs'[w] # taskReqs[w] /\ taskReqs'[w].pc = "done"

\* C24: a GET or DELETE of a task that is not stored or belongs to another key
\* returns 404 and leaves the tasks table as it was; a GET returns 200 only
\* to the owning key; a DELETE removes only the task it names and only for
\* the owning key; a deleted task stays deleted and every GET of it is a 404.
C24_TaskIsolation ==
    [][/\ \A w \in TaskWorkers :
            TaskReturned(w) =>
                LET r   == taskReqs'[w]
                    row == tasks[r.task_uuid]
                IN  IF taskReqs[w].pc = "delete"
                    THEN /\ r.status_code = 204
                         /\ row.api_key_id = <<r.api_key>>
                         /\ tasks'[r.task_uuid].state = "deleted"
                         /\ \A u \in TaskUuids \ {r.task_uuid} :
                               tasks'[u] = tasks[u]
                    ELSE /\ tasks' = tasks
                         /\ IF OwnedBy(row, r.api_key)
                            THEN r.op = "GET" /\ r.status_code = 200
                            ELSE r.status_code = 404
       /\ \A u \in TaskUuids :
            tasks[u].state = "deleted" => tasks'[u].state = "deleted"
      ]_vars

\* a task was deleted with status 204 and a later GET by its key found 404
C24_Witness ==
    \E w1, w2 \in TaskWorkers :
        /\ taskReqs[w1].op = "DELETE"
        /\ taskReqs[w1].status_code = 204
        /\ taskReqs[w2].op = "GET"
        /\ taskReqs[w2].task_uuid = taskReqs[w1].task_uuid
        /\ taskReqs[w2].api_key = taskReqs[w1].api_key
        /\ taskReqs[w2].seen = "deleted"
        /\ taskReqs[w2].status_code = 404

(***************************************************************************)
(* Properties of the Audit Orchestrator (checked under Spec)               *)
(***************************************************************************)
AuditsOf(uuid) == RowsOf(audits, uuid)

\* the workers whose finished request is a GenerateForCall that was received
\* after a generation had returned success, with no Regenerate since
SecondCalls ==
    {w \in Workers : /\ interaction.is_call
                     /\ reqs[w].op = "generate"
                     /\ reqs[w].pc = "done"
                     /\ reqs[w].base # None}

SameAudit(a, b) ==
    /\ a.score = b.score
    /\ a.is_audit_failure = b.is_audit_failure
    /\ a.audit = b.audit
    /\ a.generated_by_user = b.generated_by_user

Repeats(w) ==
    /\ Succeeded(reqs[w])
    /\ SameAudit(reqs[w].resp, reqs[w].base.resp)
    /\ Cardinality(AuditsOf(Uuid)) = 1

\* C1 as stated: a GenerateForCall that follows a successful one, with no
\* Regenerate in between, returns success with the first call's score,
\* is_failure, verdicts and generated_by, and leaves exactly one audit.
C1_SecondCallRepeatsFirst == \A w \in SecondCalls : Repeats(w)

\* C1 as amended: the same, provided no ApplyCorrectedVerdicts either has
\* rewritten the audit in between.
C1_SecondCallRepeatsUncorrected ==
    \A w \in SecondCalls : ~reqs[w].base.corrected => Repeats(w)

\* a second call by another user got the first user's audit back
C1_Witness ==
    \E w \in SecondCalls :
        /\ ~reqs[w].base.corrected
        /\ Succeeded(reqs[w])
        /\ reqs[w].resp.generated_by_user # reqs[w].username
        /\ reqs[w].resp.audit # <<>>

\* C2: a request whose INSERT lost the race on the interaction's uniqueness
\* constraint returns success with the audit the winner persisted.
C2_LoserReturnsWinnersAudit ==
    \A w \in Workers :
        (reqs[w].pc = "done" /\ reqs[w].lost)
            => /\ Succeeded(reqs[w])
               /\ \E row \in AuditsOf(Uuid) :
                     /\ reqs[w].resp.score = row.score
                     /\ reqs[w].resp.audit = JsonLoads(row.audit)

\* C3: the audit store never holds two audits of one interaction.
C3_AtMostOneAuditPerInteraction ==
    \A uuid \in {Uuid, OtherUuid} : Cardinality(AuditsOf(uuid)) <= 1

\* two generations raced, one INSERT was refused, one audit is stored
C3_Witness ==
    /\ \E w \in Workers : reqs[w].lost
    /\ Cardinality(AuditsOf(Uuid)) = 1

\* the second INSERT of w's request failed
RetryFailed(r) ==
    r.pc = "done" /\ r.attempts = 2 /\ ~r.inserted /\ ~Succeeded(r)

\* at most two INSERTs; a retry only after a refused first INSERT; a failed
\* retry is an internal error
InsertAttempts(r) ==
    /\ r.attempts \in 0..2
    /\ r.pc \in {"resetseq", "retry"} => r.attempts = 1
    /\ r.attempts = 2 => r.op \in {"generate", "regenerate"}
    /\ RetryFailed(r) => r.resp = InternalError

\* the steps between the two INSERTs: the sequence is set to max(id) + 1, the
\* retry is the request's second and last INSERT, and a refused retry writes
\* no row
InsertSteps ==
    \A w \in Workers :
        /\ (reqs[w].pc = "resetseq" /\ reqs'[w].pc = "retry")
              => pkSeq' = MaxId(audits) + 1
        /\ reqs[w].pc = "retry" => reqs'[w].pc \in {"retry", "status", "done"}
        /\ (reqs[w].pc = "retry" /\ RetryFailed(reqs'[w])) => audits' = audits
        /\ reqs[w].attempts = 2 => reqs'[w].attempts \in {0, 2}

Applied(w) ==
    /\ reqs[w].pc = "idle"
    /\ reqs'[w].op = "apply"
    /\ Succeeded(reqs'[w])

\* the verdicts a stored row gives back: its audit column for a call, its
\* comments column for a chat
StoredVerdicts(row) ==
    IF interaction.is_call THEN JsonLoads(row.audit) ELSE JsonLoads(row.comments)

\* C13: right after a successful ApplyCorrectedVerdicts on a call or a chat,
\* the stored audit's score and failure flag are the Scorer's result on the
\* supplied verdicts, the rubric and the approval threshold, its verdicts are
\* the supplied ones, and the reasoning service was not called.
C13_ApplyStoresScorerResult ==
    [][\A w \in Workers :
          Applied(w) =>
              LET supplied == reqs'[w].answers
                  scored   == _calculate_score(supplied, interaction.criteria,
                                               interaction.approval_score)
              IN  /\ ~reqs'[w].aiCalled
                  /\ RowsOf(audits', Uuid) # {}
                  /\ \A row \in RowsOf(audits', Uuid) :
                        /\ row.score = scored.score
                        /\ row.is_audit_failure = scored.is_audit_failure
                        /\ StoredVerdicts(row) = supplied]_vars

Ids(rows) == {r.id : r \in rows}

\* w's Regenerate, called on an interaction that had an audit, has stored its
\* audit and makes its last write, the status update, after which it returns
\* success
RegenerateCompletes(w) ==
    /\ reqs[w].op = "regenerate"
    /\ reqs[w].replaced
    /\ reqs[w].pc = "status"
    /\ reqs'[w].pc = "notify"

\* C14: for an interaction that has an audit, a Generate or an
\* ApplyCorrectedVerdicts neither calls the reasoning service nor replaces the
\* audit row, so that only Regenerate does; and when a Regenerate completes,
\* exactly one audit of the interaction is stored and the status is audited.
C14_OnlyRegenerateReplaces ==
    [][\A w \in Workers :
          /\ (reqs[w].pc = "idle" /\ reqs'[w].op = "generate"
                                  /\ AuditsOf(Uuid) # {})
                => /\ audits' = audits
                   /\ reqs'[w].pc = "done"
                   /\ ~reqs'[w].aiCalled
          /\ (reqs[w].pc = "idle" /\ reqs'[w].op = "apply")
                => /\ Ids(audits') = Ids(audits)
                   /\ ~reqs'[w].aiCalled
          /\ RegenerateCompletes(w)
                => /\ reqs[w].aiCalled
                   /\ Cardinality(RowsOf(audits', Uuid)) = 1
                   /\ status' = "audited"]_vars

\* the messages of generate_audit_for_call for a call without a subject
MissingSubjectMessages == {"operator unknown", "no operator assigned"}

\* w's GenerateForCall has returned
CallReturned(w) ==
    /\ interaction.is_call
    /\ reqs[w].op = "generate"
    /\ reqs[w].pc = "done"

\* C15: GenerateForCall reports its failed preconditions in a fixed order,
\* each with its own outcome: call absent 404; no subject 400; no campaign 400
\* with a message other than the missing-subject ones; no audit sheet for the
\* campaign 409; a failure of the reasoning service or an internal failure 500.
C15_DistinctOutcomes ==
    \A w \in Workers :
        CallReturned(w) =>
            LET it   == interaction
                resp == reqs[w].resp
            IN  /\ ~it.found => resp.status_code = 404
                /\ (it.found /\ it.user_id = Null) => resp.status_code = 400
                /\ (it.found /\ it.user_id # Null /\ it.campaign_id = Null)
                      => /\ resp.status_code = 400
                         /\ resp.message \notin MissingSubjectMessages
                /\ (it.found /\ it.user_id # Null /\ it.campaign_id # Null
                             /\ ~it.campaign_found)
                      => resp.status_code = 409
                /\ (reqs[w].aiCalled /\ ~Succeeded(reqs[w]))
                      => resp.status_code = 500

\* the status codes of the validation and not-found errors
ValidationCodes == {400, 404, 409}

\* w's generation returns a validation or a not-found error in this step
RejectedNow(w) ==
    /\ reqs[w].pc \in {"idle", "check"}
    /\ reqs'[w].pc = "done"
    /\ reqs'[w].op \in {"generate", "regenerate"}
    /\ ~Succeeded(reqs'[w])
    /\ reqs'[w].resp.status_code \in ValidationCodes

\* generation finds an audit of the interaction at its first step
FindsExisting(w) ==
    /\ reqs[w].pc \in {"idle", "check"}
    /\ reqs'[w].pc # reqs[w].pc
    /\ reqs'[w].op \in {"generate", "regenerate"}
    /\ reqs[w].pc = "idle" => reqs'[w].op = "generate"
    /\ RowsOf(audits, Uuid) # {}

PersistenceFailure(w) ==
    /\ reqs[w].pc \in {"retry", "status"}
    /\ reqs'[w].pc = "done"
    /\ reqs'[w].resp = InternalError

\* the row the request of worker w inserted
OwnRows(rows, r) ==
    {row \in RowsOf(rows, Uuid) :
        /\ row.generated_by_user = r.username
        /\ row.audit = JsonDumps(r.answers)}

\* C26: a generation that returns a failure caused by a persistence error,
\* the failure of the status update after the insert included, has left no
\* audit row of its own for the interaction.
C26_PersistenceAllOrNothing ==
    [][\A w \in Workers :
          PersistenceFailure(w) => OwnRows(audits', reqs[w]) = {}]_vars

\* a Regenerate of an audited interaction has ended with an error of the
\* reasoning service or of persistence
RegenerateFailed(r) ==
    /\ r.op = "regenerate"
    /\ r.pc = "done"
    /\ r.replaced
    /\ ~Succeeded(r)
    /\ r.aiFailed \/ r.resp = InternalError

\* C27: after a Regenerate whose generation failed with an error of the
\* reasoning service or of persistence, the partial writes are undone, so
\* that the interaction, which had an audit before the request, has an audit.
\* (The status, which the request reset to completed, is the other half of
\* the claim; it stays at completed in the same trace.)
C27_FailedRegenerateRestores ==
    \A w \in Workers :
        RegenerateFailed(reqs[w]) => RowsOf(audits, Uuid) # {}

\* C16: a GenerateForCall or GenerateForChat that returns a validation or a
\* not-found error has left the audit store, the id sequence and the status of
\* the interaction as they were, has not called the reasoning service and has
\* sent no notification.
C16_RejectionHasNoEffect ==
    [][\A w \in Workers :
          RejectedNow(w) =>
              /\ audits' = audits
              /\ pkSeq' = pkSeq
              /\ status' = status
              /\ ~reqs'[w].aiCalled
              /\ reqs'[w].notification = "none"]_vars

\* a generation was refused with 409 while the audit of another interaction
\* was stored: that audit is all the store holds
C16_Witness ==
    \E w \in Workers :
        /\ reqs[w].op = "generate"
        /\ reqs[w].pc = "done"
        /\ reqs[w].resp # None
        /\ ~reqs[w].resp.success
        /\ reqs[w].resp.status_code = 409
        /\ audits = {OtherRow}
        /\ status = "completed"

\* C17: when the reasoning service returns a classified error, a timeout
\* included, the generation returns that failure at once: it writes no audit
\* row, does not touch the status, and never goes on to the insert.
C17_AiErrorWritesNothing ==
    /\ [](\A w \in Workers :
            reqs[w].aiFailed => /\ reqs[w].pc = "done"
                                /\ reqs[w].resp \in AiErrors
                                /\ ~reqs[w].resp.success
                                /\ reqs[w].attempts = 0)
    /\ [][\A w \in Workers :
            (reqs[w].pc = "ai" /\ reqs'[w].aiFailed)
                => /\ audits' = audits
                   /\ status' = status]_vars

\* the reasoning service timed out: the generation returned 408, no audit of
\* the interaction is stored and the status is still completed
C17_Witness ==
    \E w \in Workers :
        /\ reqs[w].aiFailed
        /\ reqs[w].resp = Failure(408, "timeout")
        /\ AuditsOf(Uuid) = {}
        /\ status = "completed"

\* w's request is at, or has just passed, the notification
Notifies(w) == reqs[w].pc = "notify" /\ reqs'[w].pc = "done"

\* C18: a notification is attempted only by a request whose INSERT has
\* committed; whether it is delivered or fails, the step writes nothing to the
\* audit store or the status and the request returns success, with its audit
\* stored and the status audited unless a Regenerate has reset the interaction
\* since the INSERT.
C18_NotificationBestEffort ==
    /\ [](\A w \in Workers :
            reqs[w].notification # "none"
                => /\ reqs[w].pc = "done"
                   /\ reqs[w].attempts >= 1
                   /\ Succeeded(reqs[w]))
    /\ [][\A w \in Workers :
            Notifies(w)
                => /\ reqs[w].attempts >= 1
                   /\ audits' = audits
                   /\ status' = status
                   /\ Succeeded(reqs'[w])
                   /\ reqs[w].seen # "no"
                         => /\ status' = "audited"
                            /\ \E row \in RowsOf(audits', Uuid) :
                                  row.generated_by_user = reqs[w].username]_vars

\* the notification failed and the generation returned success; the audit is
\* stored and the status is audited
C18_Witness ==
    \E w \in Workers :
        /\ reqs[w].notification = "failed"
        /\ reqs[w].pc = "done"
        /\ Succeeded(reqs[w])
        /\ \E row \in AuditsOf(Uuid) : row.generated_by_user = reqs[w].username
        /\ status = "audited"

\* the verdicts are not one per submitted criterion, or one of them is for a
\* question that was not submitted
Mismatched(answers, criteria) ==
    \/ Len(answers) # Len(criteria)
    \/ \E j \in DOMAIN answers :
          \A i \in DOMAIN criteria : criteria[i].question # answers[j].question

\* the reasoning service has answered w's request with verdicts
Answered(r) == r.aiCalled /\ ~r.aiFailed

\* C19: a response of the reasoning service with a number of verdicts other
\* than the number of criteria submitted, or with a verdict for a question not
\* submitted, is never scored and stored: the generation it answers stores no
\* audit and does not return success, and no stored audit of the interaction
\* carries such verdicts.
C19_MismatchedResponseRejected ==
    /\ \A w \in Workers :
          (Answered(reqs[w]) /\ Mismatched(reqs[w].answers, interaction.criteria))
              => /\ reqs[w].pc \notin {"status", "notify"}
                 /\ ~Succeeded(reqs[w])
    /\ \A row \in AuditsOf(Uuid) :
          ~Mismatched(StoredVerdicts(row), interaction.criteria)

(***************************************************************************)
(* Properties of generation and the Quota Gate (checked under SpecGate)    *)
(***************************************************************************)
\* what the generation that gave these answers scores, stores and returns
ScoreOf(r) ==
    _calculate_score(r.answers, interaction.criteria, interaction.approval_score)

\* the policy is hard and usage has reached every limit: the gate denies
EveryLimitExceeded ==
    /\ limitRow # NoRow
    /\ limitRow.enforcement_mode = "hard"
    /\ Exceeded(limitRow.monthly_audio_minutes_limit, ledger[now].audio_minutes)
    /\ Exceeded(limitRow.monthly_token_limit, ledger[now].tokens)
    /\ Exceeded(limitRow.monthly_usd_limit, ledger[now].usd)
    /\ ~check_quota(limitRow, ledger, now, FALSE, FALSE, FALSE).allowed

\* C28: generation never consults the Quota Gate. Under every policy and
\* usage the gate is not called and its inputs are not written; a generation
\* goes on to the reasoning service exactly when the interaction has no audit
\* and is valid; the row it stores and the response it returns are those of
\* the Scorer on the answers received. The outcome is thus a function of the
\* interaction, the audit store and the answers alone, the same in two states
\* that differ only in the policy and the usage.
C28_GenerationIgnoresQuota ==
    /\ [](quotaCall = None)
    /\ [][/\ UNCHANGED <<limitRow, ledger, now>>
          /\ \A w \in Workers :
               /\ (reqs[w].pc = "idle" /\ reqs'[w].op = "generate")
                     => (reqs'[w].pc = "ai"
                           <=> /\ RowsOf(audits, Uuid) = {}
                               /\ (IF interaction.is_call
                                   THEN ValidateCall(interaction)
                                   ELSE ValidateChat(interaction)) = None)
               /\ (reqs[w].pc \in {"insert", "retry"} /\ reqs'[w].pc = "status")
                     => \E row \in RowsOf(audits', Uuid) :
                           /\ audits' = audits \cup {row}
                           /\ row.score = ScoreOf(reqs[w]).score
                           /\ row.audit = JsonDumps(reqs[w].answers)
               /\ (reqs[w].pc = "notify" /\ reqs'[w].pc = "done")
                     => reqs'[w].resp =
                           GeneratedResponse(Uuid, ScoreOf(reqs[w]),
                                             reqs[w].answers, reqs[w].username)
         ]_vars

\* in hard mode with every limit exceeded a generation stored its audit and
\* returned success
C28_Witness ==
    /\ EveryLimitExceeded
    /\ \E w \in Workers :
          /\ reqs[w].op = "generate"
          /\ reqs[w].pc = "done"
          /\ reqs[w].inserted
          /\ Succeeded(reqs[w])
          /\ OwnRows(audits, reqs[w]) # {}

(***************************************************************************)
(* Properties of interleaved requests (checked under Spec)                 *)
(***************************************************************************)
\* no request is in progress
AllFinished == \A w \in Workers : reqs[w].pc \in {"idle", "done"}

\* C30: whatever the interleaving of the generations and regenerations of
\* the interaction, once every request has finished an interaction whose
\* status is audited has an audit row.
C30_AuditedHasAudit ==
    (AllFinished /\ status = "audited") => RowsOf(audits, Uuid) # {}

====
